---- MODULE Spec2Model ----
(***************************************************************************)
(* MergeGuard: one pipeline run of run_review_async (main.py) over the     *)
(* agent chain of handoffs.py, the tools registered with the RunContext    *)
(* and the ReviewReport schema of schemas.py.                              *)
(*                                                                         *)
(* main.py imports build_chain and teardown_chain from mergeguard.handoffs *)
(* and reads chain.entry_agent_id; the module mergeguard.handoffs defines  *)
(* the chain builder as create_pipeline, the teardown as delete_pipeline   *)
(* and the entry handle as PipelineAgents.planner_id.  The model resolves  *)
(* the three names to those definitions.                                   *)
(***************************************************************************)
EXTENDS Integers, Sequences, FiniteSets, TLC

VARIABLES
    pc,              \* position of the run inside run_review_async
    pr_url,          \* the CLI argument
    MISTRAL_API_KEY, \* os.environ
    GITHUB_TOKEN,    \* os.environ
    created,         \* agent handles returned by agents.create, in order
    handoffs,        \* platform side: each agent's handoffs field
    updateCalls,     \* agent ids passed to agents.update, in order
    deleteAttempts,  \* agent ids passed to agents.delete, in order
    deleted,         \* handles whose deletion succeeded
    buildFailedAt,   \* 0, or the stage number whose creation failed
    cur,             \* current agent of the conversation
    agentTrace,      \* the current agents of the conversation, in order
    github_client,   \* main._github_client
    toolLog,         \* the registered functions the conversation invoked
    raw,             \* run_result.outputs[-1].content
    primary,         \* what the try block of run_review_async produced
    outcome,         \* what the caller of run_review_async observes
    verdict,         \* result of ReviewReport validation (validator runs)
    parsed,          \* (owner, repo, pr_number) returned by parse_pr_url
    cancelled,       \* a user interrupt was delivered to the run
    exit_code,       \* exit status of the process, -1 while it runs
    printed,         \* what main printed of the report
    original,        \* a ReviewReport object (round trip)
    reparsed,        \* the object parsed back from its JSON text
    runs,            \* parallel runs: each run's own pc, chain and loop counters
    platform         \* parallel runs: agents, edges and calls on the platform

vars == <<pc, pr_url, MISTRAL_API_KEY, GITHUB_TOKEN, created, handoffs,
          updateCalls, deleteAttempts, deleted, buildFailedAt, cur,
          agentTrace, github_client, toolLog, raw, primary, outcome, verdict,
          parsed, cancelled, exit_code, printed,
          original, reparsed,
          runs, platform>>

-----------------------------------------------------------------------------
(* Bounds of the model *)

\* tool invocations one conversation may make
MaxToolCalls == 2

\* hand-offs one conversation may make
MaxHandoffs == 4

\* comments of a generated report payload
MaxComments == 2

-----------------------------------------------------------------------------
(* Values *)

None == "None"

\* an environment variable is absent (None), empty, or holds a value
EnvValues == {None, "", "secret"}

\* a slip in the key check: every value, None included, passes
TruthyAlways(v) == TRUE

\* Python truthiness of os.environ.get(...)
Truthy(v) == v \notin {None, ""}

\* PipelineAgents: the four stages in the order create_pipeline creates them
Stages == <<"planner", "reviewer", "verifier", "reporter">>

StageSet == {Stages[i] : i \in 1..Len(Stages)}

StageIndex(s) == CHOOSE i \in 1..Len(Stages) : Stages[i] = s

Range(seq) == {seq[i] : i \in 1..Len(seq)}

NoResult == [kind |-> "none", error |-> None, report |-> <<>>]

Raised(e) == [kind |-> "error", error |-> e, report |-> <<>>]

Returned(r) == [kind |-> "report", error |-> None, report |-> <<r>>]

-----------------------------------------------------------------------------
(* PR URL parsing (main.py) *)

\* A URL after its scheme, split at "/".
PrUrls ==
    { <<"github.com", "acme", "widgets", "pull", "42">>,
      <<"github.com", "octo", "cat", "pull", "7", "files">>,
      <<"host", "acme", "widgets", "pull", "42">>,
      <<"github.com", "acme", "widgets">>,
      <<"github.com", "acme", "widgets", "issues", "42">> }

\* int(match.group(3)) for the segments that are runs of digits
DigitRuns == [s \in {"42", "7"} |-> IF s = "42" THEN 42 ELSE 7]

\* positions where r"github\.com/([^/]+)/([^/]+)/pull/(\d+)" matches
UrlMatches(url) ==
    { i \in 1..Len(url) :
        /\ i + 4 <= Len(url)
        /\ url[i] = "github.com"
        /\ url[i + 1] # ""
        /\ url[i + 2] # ""
        /\ url[i + 3] = "pull"
        /\ url[i + 4] \in DOMAIN DigitRuns }

\* a slip in the groups: repo and owner returned in the wrong order
parse_pr_url_swapped(url) ==
    IF UrlMatches(url) = {}
    THEN Raised("ValueError")
    ELSE LET i == CHOOSE j \in UrlMatches(url) : \A k \in UrlMatches(url) : j <= k
         IN  Returned(<<url[i + 2], url[i + 1], DigitRuns[url[i + 4]]>>)

\* parse_pr_url: (owner, repo, number) of the first match, or ValueError
parse_pr_url(url) ==
    IF UrlMatches(url) = {}
    THEN Raised("ValueError")
    ELSE LET i == CHOOSE j \in UrlMatches(url) : \A k \in UrlMatches(url) : j <= k
         IN  Returned(<<url[i + 1], url[i + 2], DigitRuns[url[i + 4]]>>)

-----------------------------------------------------------------------------
(* Report schema (schemas.py) *)

Severity == {"critical", "warning", "suggestion", "nitpick"}

Category == {"correctness", "security", "performance", "maintainability", "style"}

Recommendation == {"approve", "request_changes"}

\* ReviewComment: file, severity, category, message are required; line and
\* suggestion default to None, verified to False.
ReviewComment(c) ==
    /\ {"file", "severity", "category", "message"} \subseteq DOMAIN c
    /\ c.severity \in Severity
    /\ c.category \in Category

\* ReviewReport: the field constraints pydantic enforces.  comments has a
\* default_factory, so the key may be absent; overall_score has ge=0, le=100;
\* files_reviewed and total_issues have ge=0.
ReviewReport(d) ==
    /\ {"summary", "overall_score", "recommendation", "files_reviewed",
        "total_issues"} \subseteq DOMAIN d
    /\ d.overall_score >= 0
    /\ d.overall_score <= 100
    /\ d.recommendation \in Recommendation
    /\ d.files_reviewed >= 0
    /\ d.total_issues >= 0
    /\ "comments" \in DOMAIN d =>
          \A i \in 1..Len(d.comments) : ReviewComment(d.comments[i])

\* A text the terminal stage can emit: JSON text carrying a value, or text
\* that is not JSON.
JsonText(v) == [wellformed |-> TRUE, value |-> <<v>>]

Malformed == [wellformed |-> FALSE, value |-> <<>>]

\* json.loads: the decoded value, or JSONDecodeError
json_loads(text) ==
    IF text.wellformed THEN Returned(text.value[1]) ELSE Raised("JSONDecodeError")

\* ReviewReport.model_validate_json: accept or reject a raw output
model_validate_json(text) ==
    LET got == json_loads(text)
    IN  IF got.kind = "report" /\ ReviewReport(got.report[1])
        THEN "accept" ELSE "reject"

Drop(d, k) == [x \in DOMAIN d \ {k} |-> d[x]]

\* comment payloads: optional values are <<>> (null) or <<v>>
CommentPayloads ==
    { [file |-> "a.py", severity |-> "warning", category |-> "style",
       message |-> "m"],
      [file |-> "a.py", severity |-> "critical", category |-> "security",
       message |-> "m", line |-> <<3>>, suggestion |-> <<"fix">>,
       verified |-> TRUE],
      [file |-> "a.py", severity |-> "blocker", category |-> "style",
       message |-> "m"],
      [file |-> "a.py", severity |-> "warning", category |-> "naming",
       message |-> "m"],
      [file |-> "a.py", severity |-> "warning", category |-> "style"] }

SeqsUpTo(S, n) == UNION { [1..k -> S] : k \in 0..n }

ReportPayload(c, s, r, t) ==
    [summary |-> "s", comments |-> c, overall_score |-> s,
     recommendation |-> r, files_reviewed |-> 3, total_issues |-> t]

\* Scenario C of the properties: empty comment list, score 95, approve
ScenarioC(t) == ReportPayload(<<>>, 95, "approve", t)

ReportKeys == DOMAIN ScenarioC(0)

\* every payload the validator is applied to
ReportPayloads ==
    { ReportPayload(c, s, r, t) :
        c \in SeqsUpTo(CommentPayloads, MaxComments),
        s \in {-1, 0, 95, 100, 101},
        r \in Recommendation \cup {"maybe"},
        t \in -1..(MaxComments + 1) }
    \cup { Drop(ScenarioC(0), k) : k \in ReportKeys }

RawOutputs == {Malformed} \cup { JsonText(d) : d \in ReportPayloads }

\* the terminal outputs a conversation of the model ends with
RunOutputs ==
    { Malformed,
      JsonText(ScenarioC(0)),
      JsonText(ScenarioC(1)),
      JsonText(ReportPayload(<<>>, 101, "approve", 0)),
      JsonText(Drop(ScenarioC(0), "summary")),
      JsonText(ReportPayload(<<[file |-> "a.py", severity |-> "warning",
                                category |-> "style", message |-> "m"]>>,
                             40, "request_changes", 1)) }

-----------------------------------------------------------------------------
(* Agents and tools (agents.py, tools.py, main.py) *)

\* the function tools each agent is created with
BoundTools(stage) ==
    CASE stage = "planner" -> {"fetch_pr_diff", "list_changed_files"}
      [] stage = "reviewer" -> {"read_file", "check_style"}
      [] OTHER -> {}

\* the functions run_review_async registers with the RunContext
Registry == {"fetch_pr_diff", "list_changed_files", "read_file", "check_style"}

\* the registered functions that call the code-hosting API
HttpTools == {"fetch_pr_diff", "list_changed_files", "read_file"}

\* _gh_client: the module-level client, built on first use; the
\* Authorization header is added only when GITHUB_TOKEN is truthy
_gh_client(client, token) ==
    IF client = <<>> THEN <<[authorization |-> Truthy(token)]>> ELSE client

\* _fetch_pr_diff, _list_changed_files, _read_file: status 200 gives the
\* body, any other status a JSON error text
HttpResult(status) == IF status = 200 THEN "body" ELSE "error_json"

\* tool_impl.fetch_pr_diff: max_chars
max_chars == 120000

\* a text of n characters, with or without the truncation marker after it
Text(n, m) == [chars |-> n, marker |-> m]

NoText == Text(0, FALSE)

\* lengths of the diff the code host returns: at, just over and under the
\* ceiling
DiffLengths == {max_chars - 1, max_chars, max_chars + 1}

\* main._fetch_pr_diff, status 200: return resp.text
_fetch_pr_diff(diff) == Text(diff, FALSE)

\* tool_impl.fetch_pr_diff: diff[:max_chars] plus the marker when the diff
\* is longer than max_chars
fetch_pr_diff(diff) ==
    IF diff > max_chars THEN Text(max_chars, TRUE) ELSE Text(diff, FALSE)

\* github_client.fetch_pr_diff: return resp.text
github_client_fetch_pr_diff(diff) == Text(diff, FALSE)

-----------------------------------------------------------------------------
(* Chain (handoffs.py) *)

\* a slip in the build: wiring starts once the first agent exists
AllCreatedEarly(handles) == Len(handles) >= 1

\* create_pipeline reaches step 2 only after its four create calls returned
AllCreated(handles) == Len(handles) = Len(Stages)

\* the platform before any call of a parallel run
NoPlatform == [live |-> {}, edges |-> {}, createCalls |-> {}, deleteCalls |-> {}]

\* a wiring slip: the verifier hands back to the planner
HandoffTargetCycle(stage) ==
    IF stage = "verifier" THEN "planner" ELSE Stages[StageIndex(stage) + 1]

\* a wiring slip: the planner's hand-off target is the verifier
HandoffTargetSkipsReviewer(stage) ==
    IF stage = "planner" THEN "verifier" ELSE Stages[StageIndex(stage) + 1]

\* the hand-off target create_pipeline sets for a non-terminal stage
HandoffTarget(stage) == Stages[StageIndex(stage) + 1]

\* a slip in the build: the chain is returned after two of the updates
WiredShort == SubSeq(Stages, 1, Len(Stages) - 2)

\* the stages create_pipeline updates, in order: all but the reporter
Wired == SubSeq(Stages, 1, Len(Stages) - 1)

\* chain.entry_agent_id: the planner's handle
entry_agent_id == created[1]

-----------------------------------------------------------------------------
(* The run *)

Init ==
    /\ pc = "parse_url"
    /\ pr_url \in PrUrls
    /\ MISTRAL_API_KEY \in EnvValues
    /\ GITHUB_TOKEN \in EnvValues
    /\ created = <<>>
    /\ handoffs = [s \in StageSet |-> <<>>]
    /\ updateCalls = <<>>
    /\ deleteAttempts = <<>>
    /\ deleted = {}
    /\ buildFailedAt = 0
    /\ cur = None
    /\ agentTrace = <<>>
    /\ github_client = <<>>
    /\ toolLog = <<>>
    /\ raw = Malformed
    /\ primary = NoResult
    /\ outcome = NoResult
    /\ verdict = None
    /\ parsed = <<>>
    /\ cancelled = FALSE
    /\ exit_code = -1
    /\ printed = "nothing"
    /\ runs = <<>>
    /\ platform = NoPlatform
    /\ original = <<>>
    /\ reparsed = <<>>

\* run_review_async: owner, repo, pr_number = parse_pr_url(pr_url)
ParseUrl ==
    /\ pc = "parse_url"
    /\ LET r == parse_pr_url(pr_url)
       IN  IF r.kind = "error"
           THEN pc' = "done" /\ outcome' = r /\ UNCHANGED parsed
           ELSE pc' = "api_key" /\ parsed' = r.report /\ UNCHANGED outcome
    /\ UNCHANGED <<pr_url, MISTRAL_API_KEY, GITHUB_TOKEN, created, handoffs,
                   updateCalls, deleteAttempts, deleted, buildFailedAt, cur,
                   agentTrace, github_client, toolLog, raw, primary, verdict,
                   cancelled, exit_code, printed,
                   original, reparsed,
                   runs, platform>>

\* run_review_async: sys.exit(1) when MISTRAL_API_KEY is not set
CheckApiKey ==
    /\ pc = "api_key"
    /\ IF Truthy(MISTRAL_API_KEY)
       THEN pc' = "create" /\ UNCHANGED outcome
       ELSE pc' = "done" /\ outcome' = Raised("SystemExit")
    /\ UNCHANGED <<pr_url, MISTRAL_API_KEY, GITHUB_TOKEN, created, handoffs,
                   updateCalls, deleteAttempts, deleted, buildFailedAt, cur,
                   agentTrace, github_client, toolLog, raw, primary, verdict, parsed,
                   cancelled, exit_code, printed,
                   original, reparsed,
                   runs, platform>>

\* create_pipeline, step 1: the next create_*_agent call returns a handle
CreateAgent ==
    /\ pc = "create"
    /\ Len(created) < Len(Stages)
    /\ created' = Append(created, Stages[Len(created) + 1])
    /\ pc' = IF AllCreated(created') THEN "wire" ELSE "create"
    /\ UNCHANGED <<pr_url, MISTRAL_API_KEY, GITHUB_TOKEN, handoffs,
                   updateCalls, deleteAttempts, deleted, buildFailedAt, cur,
                   agentTrace, github_client, toolLog, raw, primary, outcome,
                   verdict, parsed,
                   cancelled, exit_code, printed,
                   original, reparsed,
                   runs, platform>>

\* create_pipeline, step 1: the next create_*_agent call raises (the prompt
\* cannot be read, or the platform rejects the request).  Nothing in
\* create_pipeline or run_review_async catches it: build_chain is called
\* before the try block.
CreateAgentFails ==
    /\ pc = "create"
    /\ Len(created) < Len(Stages)
    /\ buildFailedAt' = Len(created) + 1
    /\ pc' = "done"
    /\ outcome' = Raised("ProvisioningError")
    /\ UNCHANGED <<pr_url, MISTRAL_API_KEY, GITHUB_TOKEN, created, handoffs,
                   updateCalls, deleteAttempts, deleted, cur, agentTrace,
                   github_client, toolLog, raw, primary, verdict, parsed,
                   cancelled, exit_code, printed,
                   original, reparsed,
                   runs, platform>>

\* create_pipeline, step 2: the next agents.update call succeeds
UpdateHandoffs ==
    /\ pc = "wire"
    /\ Len(updateCalls) < Len(Wired)
    /\ LET a == Wired[Len(updateCalls) + 1]
       IN  /\ updateCalls' = Append(updateCalls, a)
           /\ handoffs' = [handoffs EXCEPT ![a] = <<HandoffTarget(a)>>]
    /\ pc' = IF Len(updateCalls') = Len(Wired) THEN "run" ELSE "wire"
    /\ UNCHANGED <<pr_url, MISTRAL_API_KEY, GITHUB_TOKEN, created,
                   deleteAttempts, deleted, buildFailedAt, cur, agentTrace,
                   github_client, toolLog, raw, primary, outcome, verdict, parsed,
                   cancelled, exit_code, printed,
                   original, reparsed,
                   runs, platform>>

\* create_pipeline, step 2: the next agents.update call raises
UpdateHandoffsFails ==
    /\ pc = "wire"
    /\ Len(updateCalls) < Len(Wired)
    /\ updateCalls' = Append(updateCalls, Wired[Len(updateCalls) + 1])
    /\ pc' = "done"
    /\ outcome' = Raised("ProvisioningError")
    /\ UNCHANGED <<pr_url, MISTRAL_API_KEY, GITHUB_TOKEN, created, handoffs,
                   deleteAttempts, deleted, buildFailedAt, cur, agentTrace,
                   github_client, toolLog, raw, primary, verdict, parsed,
                   cancelled, exit_code, printed,
                   original, reparsed,
                   runs, platform>>

\* RunContext(agent_id=chain.entry_agent_id): the conversation starts with
\* the entry agent
StartConversation ==
    /\ pc = "run"
    /\ cur = None
    /\ cur' = entry_agent_id
    /\ agentTrace' = <<entry_agent_id>>
    /\ UNCHANGED <<pc, pr_url, MISTRAL_API_KEY, GITHUB_TOKEN, created,
                   handoffs, updateCalls, deleteAttempts, deleted,
                   buildFailedAt, github_client, toolLog, raw, primary,
                   outcome, verdict, parsed,
                   cancelled, exit_code, printed,
                   original, reparsed,
                   runs, platform>>

\* the conversation invokes a registered function the current agent is
\* bound to; the three code-host tools go through _gh_client and issue a GET
ToolCall ==
    /\ pc = "run"
    /\ cur # None
    /\ Len(toolLog) < MaxToolCalls
    /\ \E t \in BoundTools(cur) \cap Registry :
         IF t \in HttpTools
         THEN LET gh == _gh_client(github_client, GITHUB_TOKEN)
              IN  /\ github_client' = gh
                  /\ \E status \in {200, 404} :
                     \E diff \in IF t = "fetch_pr_diff" /\ status = 200
                                 THEN DiffLengths ELSE {0} :
                       toolLog' = Append(toolLog,
                           [agent |-> cur, tool |-> t, http |-> TRUE,
                            authorized |-> gh[1].authorization,
                            result |-> HttpResult(status),
                            upstream |-> diff,
                            text |-> IF t = "fetch_pr_diff" /\ status = 200
                                     THEN _fetch_pr_diff(diff) ELSE NoText,
                            failure |-> IF status = 200 THEN "none"
                                        ELSE "http_status",
                            aborted |-> FALSE])
         ELSE /\ toolLog' = Append(toolLog,
                    [agent |-> cur, tool |-> t, http |-> FALSE,
                     authorized |-> FALSE, result |-> "issues_json",
                     upstream |-> 0, text |-> NoText,
                     failure |-> "none", aborted |-> FALSE])
              /\ UNCHANGED github_client
    /\ UNCHANGED <<pc, pr_url, MISTRAL_API_KEY, GITHUB_TOKEN, created,
                   handoffs, updateCalls, deleteAttempts, deleted,
                   buildFailedAt, cur, agentTrace, raw, primary, outcome,
                   verdict, parsed,
                   cancelled, exit_code, printed,
                   original, reparsed,
                   runs, platform>>

\* gh.get raises (connection error, timeout): none of _fetch_pr_diff,
\* _list_changed_files, _read_file or the functions registered on the run
\* context has a handler, so the exception leaves the registered function.
\* What run_async does with it is the SDK's choice: it either re-raises, and
\* the run ends, or feeds an error text back to the agent.
ToolCallRaises ==
    /\ pc = "run"
    /\ cur # None
    /\ Len(toolLog) < MaxToolCalls
    /\ \E t \in BoundTools(cur) \cap Registry \cap HttpTools :
       \E propagated \in BOOLEAN :
         LET gh == _gh_client(github_client, GITHUB_TOKEN)
         IN  /\ github_client' = gh
             /\ toolLog' = Append(toolLog,
                    [agent |-> cur, tool |-> t, http |-> TRUE,
                     authorized |-> gh[1].authorization,
                     result |-> IF propagated THEN "raised"
                                ELSE "sdk_error_text",
                     upstream |-> 0, text |-> NoText,
                     failure |-> "network", aborted |-> propagated])
             /\ primary' = IF propagated THEN Raised("RunError") ELSE primary
             /\ pc' = IF propagated THEN "teardown" ELSE pc
    /\ UNCHANGED <<pr_url, MISTRAL_API_KEY, GITHUB_TOKEN, created,
                   handoffs, updateCalls, deleteAttempts, deleted,
                   buildFailedAt, cur, agentTrace, raw, outcome,
                   verdict, parsed,
                   cancelled, exit_code, printed,
                   original, reparsed,
                   runs, platform>>

\* the current agent finishes its work and control passes to an agent of its
\* handoffs field
HandOff ==
    /\ pc = "run"
    /\ cur # None
    /\ Len(agentTrace) <= MaxHandoffs
    /\ \E t \in Range(handoffs[cur]) :
         /\ cur' = t
         /\ agentTrace' = Append(agentTrace, t)
    /\ UNCHANGED <<pc, pr_url, MISTRAL_API_KEY, GITHUB_TOKEN, created,
                   handoffs, updateCalls, deleteAttempts, deleted,
                   buildFailedAt, github_client, toolLog, raw, primary,
                   outcome, verdict, parsed,
                   cancelled, exit_code, printed,
                   original, reparsed,
                   runs, platform>>

\* run_async returns: the agent without a hand-off target gave the final
\* output
RunReturns ==
    /\ pc = "run"
    /\ cur # None
    /\ handoffs[cur] = <<>>
    /\ \E o \in RunOutputs : raw' = o
    /\ pc' = "parse_report"
    /\ UNCHANGED <<pr_url, MISTRAL_API_KEY, GITHUB_TOKEN, created, handoffs,
                   updateCalls, deleteAttempts, deleted, buildFailedAt, cur,
                   agentTrace, github_client, toolLog, primary, outcome,
                   verdict, parsed,
                   cancelled, exit_code, printed,
                   original, reparsed,
                   runs, platform>>

\* RunContext or run_async raises; the finally block runs next
RunRaises ==
    /\ pc = "run"
    /\ primary' = Raised("RunError")
    /\ pc' = "teardown"
    /\ UNCHANGED <<pr_url, MISTRAL_API_KEY, GITHUB_TOKEN, created, handoffs,
                   updateCalls, deleteAttempts, deleted, buildFailedAt, cur,
                   agentTrace, github_client, toolLog, raw, outcome, verdict, parsed,
                   cancelled, exit_code, printed,
                   original, reparsed,
                   runs, platform>>

\* report = json.loads(run_result.outputs[-1].content); return report
ParseReport ==
    /\ pc = "parse_report"
    /\ primary' = json_loads(raw)
    /\ pc' = "teardown"
    /\ UNCHANGED <<pr_url, MISTRAL_API_KEY, GITHUB_TOKEN, created, handoffs,
                   updateCalls, deleteAttempts, deleted, buildFailedAt, cur,
                   agentTrace, github_client, toolLog, raw, outcome, verdict, parsed,
                   cancelled, exit_code, printed,
                   original, reparsed,
                   runs, platform>>

\* delete_pipeline: the next agents.delete call succeeds; after the last one
\* the finally block ends and the caller sees what the try block produced
DeleteAgent ==
    /\ pc = "teardown"
    /\ Len(deleteAttempts) < Len(created)
    /\ LET a == created[Len(deleteAttempts) + 1]
       IN  /\ deleteAttempts' = Append(deleteAttempts, a)
           /\ deleted' = deleted \cup {a}
    /\ IF Len(deleteAttempts') = Len(created)
       THEN pc' = "done" /\ outcome' = primary
       ELSE UNCHANGED <<pc, outcome>>
    /\ UNCHANGED <<pr_url, MISTRAL_API_KEY, GITHUB_TOKEN, created, handoffs,
                   updateCalls, buildFailedAt, cur, agentTrace, github_client,
                   toolLog, raw, primary, verdict, parsed,
                   cancelled, exit_code, printed,
                   original, reparsed,
                   runs, platform>>

\* delete_pipeline: the next agents.delete call raises; the loop has no
\* handler, so the exception leaves the finally block and replaces what the
\* try block produced
DeleteAgentFails ==
    /\ pc = "teardown"
    /\ Len(deleteAttempts) < Len(created)
    /\ deleteAttempts' = Append(deleteAttempts, created[Len(deleteAttempts) + 1])
    /\ pc' = "done"
    /\ outcome' = Raised("DeleteError")
    /\ UNCHANGED <<pr_url, MISTRAL_API_KEY, GITHUB_TOKEN, created, handoffs,
                   updateCalls, deleted, buildFailedAt, cur, agentTrace,
                   github_client, toolLog, raw, primary, verdict, parsed,
                   cancelled, exit_code, printed,
                   original, reparsed,
                   runs, platform>>

\* a user interrupt raises KeyboardInterrupt inside build_chain, which is
\* called before the try block: the exception leaves run_review_async
CancelDuringBuild ==
    /\ pc \in {"create", "wire"}
    /\ cancelled' = TRUE
    /\ pc' = "done"
    /\ outcome' = Raised("KeyboardInterrupt")
    /\ UNCHANGED <<pr_url, MISTRAL_API_KEY, GITHUB_TOKEN, created, handoffs,
                   updateCalls, deleteAttempts, deleted, buildFailedAt, cur,
                   agentTrace, github_client, toolLog, raw, primary, verdict,
                   parsed, exit_code, printed,
                   original, reparsed,
                   runs, platform>>

\* a user interrupt ends the conversation (a platform round-trip or a tool
\* call) inside the try block; the finally block runs next
CancelDuringRun ==
    /\ pc = "run"
    /\ cancelled' = TRUE
    /\ primary' = Raised("KeyboardInterrupt")
    /\ pc' = "teardown"
    /\ UNCHANGED <<pr_url, MISTRAL_API_KEY, GITHUB_TOKEN, created, handoffs,
                   updateCalls, deleteAttempts, deleted, buildFailedAt, cur,
                   agentTrace, github_client, toolLog, raw, outcome, verdict,
                   parsed, exit_code, printed,
                   original, reparsed,
                   runs, platform>>

\* main: the exit status for what run_review produced.  A report is printed
\* and main returns; ValueError (JSONDecodeError is one) gives sys.exit(1),
\* KeyboardInterrupt sys.exit(130); SystemExit(1) and every exception main
\* does not catch end the process with status 1.
ExitCode(result) ==
    CASE result.kind = "report" -> 0
      [] result.error = "KeyboardInterrupt" -> 130
      [] OTHER -> 1

\* main: after run_review, print the report (raw JSON with --json, formatted
\* otherwise) or handle the exception, and exit
MainExit ==
    /\ pc = "done"
    /\ pc' = "exited"
    /\ exit_code' = ExitCode(outcome)
    /\ IF outcome.kind = "report"
       THEN \E args_json \in BOOLEAN :
              printed' = IF args_json THEN "json" ELSE "formatted"
       ELSE UNCHANGED printed
    /\ UNCHANGED <<pr_url, MISTRAL_API_KEY, GITHUB_TOKEN, created, handoffs,
                   updateCalls, deleteAttempts, deleted, buildFailedAt, cur,
                   agentTrace, github_client, toolLog, raw, primary, outcome,
                   verdict, parsed, cancelled,
                   original, reparsed,
                   runs, platform>>

Next ==
    \/ ParseUrl
    \/ CheckApiKey
    \/ CreateAgent
    \/ CreateAgentFails
    \/ UpdateHandoffs
    \/ UpdateHandoffsFails
    \/ StartConversation
    \/ ToolCall
    \/ ToolCallRaises
    \/ HandOff
    \/ RunReturns
    \/ RunRaises
    \/ ParseReport
    \/ DeleteAgent
    \/ DeleteAgentFails
    \/ CancelDuringBuild
    \/ CancelDuringRun
    \/ MainExit

Spec == Init /\ [][Next]_vars

-----------------------------------------------------------------------------
(* The Report Validator applied to every raw output *)

InitValidate ==
    /\ pc = "validate"
    /\ raw \in RawOutputs
    /\ pr_url \in PrUrls
    /\ MISTRAL_API_KEY = "secret"
    /\ GITHUB_TOKEN = "secret"
    /\ created = <<>>
    /\ handoffs = [s \in StageSet |-> <<>>]
    /\ updateCalls = <<>>
    /\ deleteAttempts = <<>>
    /\ deleted = {}
    /\ buildFailedAt = 0
    /\ cur = None
    /\ agentTrace = <<>>
    /\ github_client = <<>>
    /\ toolLog = <<>>
    /\ primary = NoResult
    /\ outcome = NoResult
    /\ verdict = None
    /\ parsed = <<>>
    /\ cancelled = FALSE
    /\ exit_code = -1
    /\ printed = "nothing"
    /\ runs = <<>>
    /\ platform = NoPlatform
    /\ original = <<>>
    /\ reparsed = <<>>

\* ReviewReport.model_validate_json(raw)
Validate ==
    /\ pc = "validate"
    /\ verdict' = model_validate_json(raw)
    /\ pc' = "validated"
    /\ UNCHANGED <<pr_url, MISTRAL_API_KEY, GITHUB_TOKEN, created, handoffs,
                   updateCalls, deleteAttempts, deleted, buildFailedAt, cur,
                   agentTrace, github_client, toolLog, raw, primary, outcome, parsed,
                   cancelled, exit_code, printed,
                   original, reparsed,
                   runs, platform>>

NextValidate == Validate

SpecValidate == InitValidate /\ [][NextValidate]_vars

-----------------------------------------------------------------------------
(* Round trip of a ReviewReport through its JSON text (schemas.py) *)

\* a member of one of the str enums of schemas.py; its JSON form is its value
Member(enum, v) == [enum |-> enum, value |-> v]

\* ReviewComment objects: every field set, line and suggestion None (<<>>)
\* or a value, verified False unless given
CommentObjects ==
    { [file |-> "a.py", line |-> <<>>, severity |-> Member("Severity", "warning"),
       category |-> Member("Category", "style"), message |-> "m",
       suggestion |-> <<>>, verified |-> FALSE],
      [file |-> "a.py", line |-> <<3>>, severity |-> Member("Severity", "critical"),
       category |-> Member("Category", "security"), message |-> "m",
       suggestion |-> <<"fix">>, verified |-> TRUE],
      [file |-> "b.py", line |-> <<3>>, severity |-> Member("Severity", "nitpick"),
       category |-> Member("Category", "style"), message |-> "m",
       suggestion |-> <<>>, verified |-> TRUE] }

\* ReviewReport objects that satisfy the field constraints
ReportObjects ==
    { [summary |-> "s", comments |-> c, overall_score |-> sc,
       recommendation |-> Member("Recommendation", r), files_reviewed |-> f,
       total_issues |-> t] :
        c \in SeqsUpTo(CommentObjects, MaxComments),
        sc \in {0, 95, 100},
        r \in Recommendation,
        f \in {0, 3},
        t \in 0..MaxComments }

\* serialisation of a ReviewComment: every field is written, an enum as its
\* value, None as null
DumpComment(c) ==
    [file |-> c.file, line |-> c.line, severity |-> c.severity.value,
     category |-> c.category.value, message |-> c.message,
     suggestion |-> c.suggestion, verified |-> c.verified]

\* ReviewReport.model_dump_json
model_dump_json(m) ==
    JsonText(
      [summary |-> m.summary,
       comments |-> [i \in 1..Len(m.comments) |-> DumpComment(m.comments[i])],
       overall_score |-> m.overall_score,
       recommendation |-> m.recommendation.value,
       files_reviewed |-> m.files_reviewed,
       total_issues |-> m.total_issues])

\* a slip in the comment model: the verified field is not read back
ValidateCommentDropsVerified(c) ==
    [file |-> c.file,
     line |-> IF "line" \in DOMAIN c THEN c.line ELSE <<>>,
     severity |-> Member("Severity", c.severity),
     category |-> Member("Category", c.category),
     message |-> c.message,
     suggestion |-> IF "suggestion" \in DOMAIN c THEN c.suggestion ELSE <<>>,
     verified |-> FALSE]

\* ReviewComment built from a validated dict: absent line and suggestion
\* default to None, absent verified to False
ValidateComment(c) ==
    [file |-> c.file,
     line |-> IF "line" \in DOMAIN c THEN c.line ELSE <<>>,
     severity |-> Member("Severity", c.severity),
     category |-> Member("Category", c.category),
     message |-> c.message,
     suggestion |-> IF "suggestion" \in DOMAIN c THEN c.suggestion ELSE <<>>,
     verified |-> IF "verified" \in DOMAIN c THEN c.verified ELSE FALSE]

\* ReviewReport built from a validated dict: absent comments default to []
model_validate(d) ==
    [summary |-> d.summary,
     comments |-> IF "comments" \in DOMAIN d
                  THEN [i \in 1..Len(d.comments) |-> ValidateComment(d.comments[i])]
                  ELSE <<>>,
     overall_score |-> d.overall_score,
     recommendation |-> Member("Recommendation", d.recommendation),
     files_reviewed |-> d.files_reviewed,
     total_issues |-> d.total_issues]

InitRoundTrip ==
    /\ pc = "serialise"
    /\ original \in ReportObjects
    /\ reparsed = <<>>
    /\ raw = Malformed
    /\ pr_url = <<"github.com", "acme", "widgets", "pull", "42">>
    /\ MISTRAL_API_KEY = "secret"
    /\ GITHUB_TOKEN = "secret"
    /\ created = <<>>
    /\ handoffs = [s \in StageSet |-> <<>>]
    /\ updateCalls = <<>>
    /\ deleteAttempts = <<>>
    /\ deleted = {}
    /\ buildFailedAt = 0
    /\ cur = None
    /\ agentTrace = <<>>
    /\ github_client = <<>>
    /\ toolLog = <<>>
    /\ primary = NoResult
    /\ outcome = NoResult
    /\ verdict = None
    /\ parsed = <<>>
    /\ cancelled = FALSE
    /\ exit_code = -1
    /\ printed = "nothing"
    /\ runs = <<>>
    /\ platform = NoPlatform

\* the report is serialised to JSON text
Serialise ==
    /\ pc = "serialise"
    /\ raw' = model_dump_json(original)
    /\ pc' = "reparse"
    /\ UNCHANGED <<pr_url, MISTRAL_API_KEY, GITHUB_TOKEN, created, handoffs,
                   updateCalls, deleteAttempts, deleted, buildFailedAt, cur,
                   agentTrace, github_client, toolLog, primary, outcome,
                   verdict, parsed, cancelled, exit_code, printed,
                   original, reparsed,
                   runs, platform>>

\* the text goes through the validator: the object it builds, if it accepts
Reparse ==
    /\ pc = "reparse"
    /\ verdict' = model_validate_json(raw)
    /\ reparsed' = IF verdict' = "accept"
                   THEN <<model_validate(json_loads(raw).report[1])>>
                   ELSE <<>>
    /\ pc' = "reparsed"
    /\ UNCHANGED <<pr_url, MISTRAL_API_KEY, GITHUB_TOKEN, created, handoffs,
                   updateCalls, deleteAttempts, deleted, buildFailedAt, cur,
                   agentTrace, github_client, toolLog, raw, primary, outcome,
                   parsed, cancelled, exit_code, printed, original,
                   runs, platform>>

NextRoundTrip ==
    \/ Serialise
    \/ Reparse

SpecRoundTrip == InitRoundTrip /\ [][NextRoundTrip]_vars

-----------------------------------------------------------------------------
(* Several reviews at once: run_review_async called concurrently in one
   process. client and chain are locals of each call; _github_client is the
   one module-level variable the calls write. *)

NumRuns == 2

Runs == 1..NumRuns

\* the id the platform returns to a create call: fresh for every call, named
\* here by the call that received it
AgentId(r, stage) == <<r, stage>>

\* a slip: the chain kept in one place for all runs, holding the last run's
TeardownTargetsOfLast(r) == runs[NumRuns].chain

\* teardown_chain(client, chain): the chain is the local of this call
TeardownTargets(r) == runs[r].chain

InitParallel ==
    /\ runs = [r \in Runs |->
                 [pc |-> "build", chain |-> <<>>, wired |-> 0, deletes |-> 0]]
    /\ platform = NoPlatform
    /\ github_client = <<>>
    /\ GITHUB_TOKEN \in EnvValues
    /\ MISTRAL_API_KEY = "secret"
    /\ pc = "parallel"
    /\ pr_url = <<"github.com", "acme", "widgets", "pull", "42">>
    /\ created = <<>>
    /\ handoffs = [s \in StageSet |-> <<>>]
    /\ updateCalls = <<>>
    /\ deleteAttempts = <<>>
    /\ deleted = {}
    /\ buildFailedAt = 0
    /\ cur = None
    /\ agentTrace = <<>>
    /\ toolLog = <<>>
    /\ raw = Malformed
    /\ primary = NoResult
    /\ outcome = NoResult
    /\ verdict = None
    /\ parsed = <<>>
    /\ cancelled = FALSE
    /\ exit_code = -1
    /\ printed = "nothing"
    /\ original = <<>>
    /\ reparsed = <<>>

\* variables of the single-run specifications, untouched by parallel runs
SingleRunVars ==
    <<pc, pr_url, MISTRAL_API_KEY, GITHUB_TOKEN, created, handoffs,
      updateCalls, deleteAttempts, deleted, buildFailedAt, cur, agentTrace,
      toolLog, raw, primary, outcome, verdict, parsed, cancelled, exit_code,
      printed, original, reparsed>>

\* one client.beta.agents.create call of run r
RunCreateAgent(r) ==
    /\ runs[r].pc = "build"
    /\ LET id == AgentId(r, Stages[Len(runs[r].chain) + 1])
           chain == Append(runs[r].chain, id)
       IN  /\ runs' = [runs EXCEPT ![r].chain = chain,
                                   ![r].pc = IF AllCreated(chain) THEN "wire"
                                             ELSE "build"]
           /\ platform' = [platform EXCEPT
                             !.live = @ \cup {id},
                             !.createCalls = @ \cup {<<r, id>>}]
    /\ UNCHANGED <<github_client, SingleRunVars>>

\* a create call of run r raises: the exception leaves the call before its try
RunCreateAgentFails(r) ==
    /\ runs[r].pc = "build"
    /\ runs' = [runs EXCEPT ![r].pc = "done"]
    /\ UNCHANGED <<platform, github_client, SingleRunVars>>

\* one client.beta.agents.update(handoffs=[next]) call of run r
RunUpdateHandoffs(r) ==
    /\ runs[r].pc = "wire"
    /\ LET k == runs[r].wired + 1
       IN  /\ platform' = [platform EXCEPT
                 !.edges = @ \cup {<<runs[r].chain[k], runs[r].chain[k + 1]>>}]
           /\ runs' = [runs EXCEPT ![r].wired = k,
                                   ![r].pc = IF k = Len(Wired) THEN "run"
                                             ELSE "wire"]
    /\ UNCHANGED <<github_client, SingleRunVars>>

\* a tool of run r calls _gh_client(): the first call of any run builds the
\* module-level client, later calls of every run get that one
RunToolCall(r) ==
    /\ runs[r].pc = "run"
    /\ github_client' = _gh_client(github_client, GITHUB_TOKEN)
    /\ UNCHANGED <<runs, platform, SingleRunVars>>

\* run_async returns or raises: either way control reaches the finally block
RunEnds(r) ==
    /\ runs[r].pc = "run"
    /\ runs' = [runs EXCEPT ![r].pc = "teardown"]
    /\ UNCHANGED <<platform, github_client, SingleRunVars>>

\* one client.beta.agents.delete call of run r's teardown
RunDeleteAgent(r) ==
    /\ runs[r].pc = "teardown"
    /\ IF runs[r].deletes < Len(TeardownTargets(r))
       THEN LET id == TeardownTargets(r)[runs[r].deletes + 1]
            IN  /\ platform' = [platform EXCEPT
                                  !.live = @ \ {id},
                                  !.deleteCalls = @ \cup {<<r, id>>}]
                /\ runs' = [runs EXCEPT ![r].deletes = @ + 1]
       ELSE /\ runs' = [runs EXCEPT ![r].pc = "done"]
            /\ UNCHANGED platform
    /\ UNCHANGED <<github_client, SingleRunVars>>

\* a delete call of run r raises and ends its loop
RunDeleteAgentFails(r) ==
    /\ runs[r].pc = "teardown"
    /\ runs[r].deletes < Len(TeardownTargets(r))
    /\ platform' = [platform EXCEPT
          !.deleteCalls = @ \cup {<<r, TeardownTargets(r)[runs[r].deletes + 1]>>}]
    /\ runs' = [runs EXCEPT ![r].pc = "done"]
    /\ UNCHANGED <<github_client, SingleRunVars>>

NextParallel ==
    \/ \E r \in Runs : RunCreateAgent(r)
    \/ \E r \in Runs : RunCreateAgentFails(r)
    \/ \E r \in Runs : RunUpdateHandoffs(r)
    \/ \E r \in Runs : RunToolCall(r)
    \/ \E r \in Runs : RunEnds(r)
    \/ \E r \in Runs : RunDeleteAgent(r)
    \/ \E r \in Runs : RunDeleteAgentFails(r)

SpecParallel == InitParallel /\ [][NextParallel]_vars

-----------------------------------------------------------------------------
(* Properties *)

Done == pc = "done"

\* C1: whenever at least one agent handle has been created, teardown of the
\* chain is attempted before the run ends, on every exit path: success, run
\* error, report error, and a chain build that failed part-way.
C1_TeardownOnEveryExit ==
    (Done /\ created # <<>>) => deleteAttempts # <<>>

\* C2: at the end of a run the deletion attempts are exactly the created
\* handles, each attempted once.
C2_OneDeletionPerHandle ==
    Done =>
      /\ Len(deleteAttempts) = Len(created)
      /\ \A h \in Range(created) :
           Cardinality({i \in 1..Len(deleteAttempts) : deleteAttempts[i] = h}) = 1

\* C3: once teardown has started, every handle of the chain is attempted
\* even if a deletion fails, and the caller observes what the run produced
\* (the report or the original error), not a teardown error.
C3_TeardownBestEffort ==
    (Done /\ deleteAttempts # <<>>) =>
      /\ Range(created) \subseteq Range(deleteAttempts)
      /\ outcome = primary

\* C4: when creation of stage k fails, the k-1 stages created before it are
\* each the target of a deletion attempt before the error reaches the caller.
C4_PartialBuildCleanup ==
    (Done /\ buildFailedAt > 0) =>
      deleteAttempts = SubSeq(Stages, 1, buildFailedAt - 1)

\* the Review Report invariants of the specification
Conformant(d) ==
    /\ ReviewReport(d)
    /\ "comments" \in DOMAIN d
    /\ d.total_issues = Len(d.comments)

\* C5: a run returns a report only if the terminal output validates against
\* the Review Report schema: total_issues = len(comments) and
\* 0 <= overall_score <= 100 hold of every returned report.
C5_ReturnedReportValid ==
    (Done /\ outcome.kind = "report") => Conformant(outcome.report[1])

\* what the specification's validator accepts: the declared field and enum
\* constraints, and total_issues equal to the number of comments
SpecAccepts(text) ==
    /\ text.wellformed
    /\ ReviewReport(text.value[1])
    /\ text.value[1].total_issues =
         IF "comments" \in DOMAIN text.value[1]
         THEN Len(text.value[1].comments) ELSE 0

\* C6: the validator accepts a raw output if and only if all required
\* fields are present, the enums and the score are in range and
\* total_issues equals the number of comments.
C6_ValidatorAllOrNothing ==
    verdict # None => (verdict = "accept" <=> SpecAccepts(raw))

C10_NoRequestWithoutCredential ==
    \A i \in 1..Len(toolLog) : toolLog[i].http => Truthy(GITHUB_TOKEN)

\* a URL of the form scheme://<host>/<owner>/<repo>/pull/<number>
IsPullUrl(url) ==
    /\ Len(url) >= 5
    /\ url[2] # ""
    /\ url[3] # ""
    /\ url[4] = "pull"
    /\ url[5] \in DOMAIN DigitRuns

\* the run stopped at the URL: nothing was created, called or deleted
StoppedAtUrl ==
    /\ pc \in {"done", "exited"}
    /\ outcome = Raised("ValueError")
    /\ created = <<>>
    /\ updateCalls = <<>>
    /\ deleteAttempts = <<>>
    /\ toolLog = <<>>
    /\ github_client = <<>>

C12_DiffTruncated ==
    \A i \in 1..Len(toolLog) :
      (toolLog[i].tool = "fetch_pr_diff" /\ toolLog[i].result = "body") =>
        toolLog[i].text =
          IF toolLog[i].upstream <= 120000
          THEN [chars |-> toolLog[i].upstream, marker |-> FALSE]
          ELSE [chars |-> 120000, marker |-> TRUE]

\* C13: after a user interrupt during chain build, a platform round-trip or
\* a tool call, every agent handle created so far has been the target of a
\* deletion attempt when the run ends.
C13_TeardownOnCancel ==
    (Done /\ cancelled) => Range(created) \subseteq Range(deleteAttempts)

\* C14: the process exits with 0 exactly when the run produced a report,
\* with a non-zero status on an invalid URL, a missing credential or a
\* pipeline failure, and prints no report on a non-zero exit.
C14_ExitCodes ==
    pc = "exited" =>
      /\ exit_code = 0 <=> outcome.kind = "report"
      /\ parse_pr_url(pr_url).kind = "error" => exit_code # 0
      /\ ~Truthy(MISTRAL_API_KEY) => exit_code # 0
      /\ ~Truthy(GITHUB_TOKEN) => exit_code # 0
      /\ outcome.kind = "error" => exit_code # 0
      /\ exit_code # 0 => printed = "nothing"

\* C15: a valid ReviewReport serialised to JSON text and parsed back through
\* the validator is accepted and equal to the original.
C15_RoundTrip ==
    pc = "reparsed" => (verdict = "accept" /\ reparsed = <<original>>)

\* C15 witness: a round trip of a report holding a comment with a null line,
\* a null suggestion and the default verified flag
C15_Witness ==
    /\ pc = "reparsed"
    /\ \E i \in 1..Len(original.comments) :
         /\ original.comments[i].line = <<>>
         /\ original.comments[i].suggestion = <<>>
         /\ original.comments[i].verified = FALSE

\* C16: no hand-off update is issued, and no agent has a hand-off target,
\* before all four agent handles exist.
C16_TwoPhase ==
    (updateCalls # <<>> \/ \E s \in StageSet : handoffs[s] # <<>>) =>
      created = Stages

\* C16 witness: the first hand-off edge has just been set
C16_Witness ==
    /\ pc = "wire"
    /\ updateCalls = <<"planner">>
    /\ handoffs["planner"] # <<>>

\* create_pipeline returned a chain
ChainBuilt ==
    \/ pc \in {"run", "parse_report", "teardown"}
    \/ pc \in {"done", "exited"} /\ primary.kind # "none"

\* C17: in a built chain the hand-off edges are exactly planner -> reviewer
\* -> verifier -> reporter, one target per non-terminal stage and none for
\* the reporter; the entry handle is the planner, the terminal one the
\* reporter.
C17_SimplePath ==
    ChainBuilt =>
      /\ \A i \in 1..(Len(Stages) - 1) : handoffs[Stages[i]] = <<Stages[i + 1]>>
      /\ handoffs[Stages[Len(Stages)]] = <<>>
      /\ entry_agent_id = "planner"
      /\ {s \in StageSet : handoffs[s] = <<>>} = {"reporter"}
      /\ agentTrace # <<>> => agentTrace[1] = "planner"

\* C17 witness: the chain is built and the conversation starts at its entry
C17_Witness ==
    /\ pc = "run"
    /\ cur = "planner"
    /\ agentTrace = <<"planner">>
    /\ Len(updateCalls) = Len(Wired)

\* C19: a failure inside a tool implementation (non-success status, network
\* error, timeout) comes back to the conversation as a tool result and never
\* ends the run; a run ended by a tool was ended by a credential or
\* configuration error.
C19_ToolFailureIsResult ==
    \A i \in 1..Len(toolLog) :
      /\ toolLog[i].failure \in {"http_status", "network"} =>
           /\ toolLog[i].result \in {"error_json", "sdk_error_text"}
           /\ ~toolLog[i].aborted
      /\ toolLog[i].aborted => toolLog[i].failure = "configuration"

\* the agents a run created, and the hand-off edges leaving them
AgentsOf(r, plat) ==
    [live  |-> {id \in plat.live : <<r, id>> \in plat.createCalls},
     edges |-> {e \in plat.edges : <<r, e[1]>> \in plat.createCalls}]

\* C20: with several runs in parallel, every deletion a run attempts is of a
\* handle its own chain build created and that no other run created; a step
\* of one run leaves every other run's locals and agents as they were, the
\* module-level code-host client being the one thing a run's step may write
\* that other runs read.
C20_RunsOwnTheirChains ==
    /\ [](\A c \in platform.deleteCalls :
            /\ c \in platform.createCalls
            /\ \A q \in Runs \ {c[1]} : <<q, c[2]>> \notin platform.createCalls)
    /\ [][\E r \in Runs : \A q \in Runs \ {r} :
            /\ runs'[q] = runs[q]
            /\ AgentsOf(q, platform') = AgentsOf(q, platform)]_vars

\* C20 witness: run 1 has torn its whole chain down while the other runs'
\* chains are complete and live, and a tool has built the shared client
C20_Witness ==
    /\ runs # <<>>
    /\ runs[1].pc = "done"
    /\ runs[1].deletes = Len(Stages)
    /\ \A q \in Runs \ {1} :
         /\ runs[q].pc = "run"
         /\ Range(runs[q].chain) \subseteq platform.live
    /\ github_client # <<>>

\* an update call was issued and did not take effect: it raised
UpdateFailed == \E a \in Range(updateCalls) : handoffs[a] = <<>>

\* C21: create_pipeline returns a chain only after its four create calls and
\* its three update calls succeeded; the update calls are issued for planner,
\* reviewer, verifier in that order and never for the reporter; when an
\* update call fails the exception reaches the caller and no chain is
\* returned.
C21_ChainOnlyAfterFullBuild ==
    /\ ChainBuilt =>
         /\ created = <<"planner", "reviewer", "verifier", "reporter">>
         /\ updateCalls = <<"planner", "reviewer", "verifier">>
         /\ ~UpdateFailed
    /\ \A i \in 1..Len(updateCalls) :
         /\ i <= 3
         /\ updateCalls[i] = <<"planner", "reviewer", "verifier">>[i]
    /\ UpdateFailed =>
         /\ ~ChainBuilt
         /\ pc \in {"done", "exited"}
         /\ outcome = Raised("ProvisioningError")
         /\ primary = NoResult
         /\ cur = None
         /\ agentTrace = <<>>

\* C21 witness: the second update call raised and the build ended there
C21_Witness ==
    /\ pc = "done"
    /\ updateCalls = <<"planner", "reviewer">>
    /\ handoffs["planner"] = <<"reviewer">>
    /\ handoffs["reviewer"] = <<>>
    /\ outcome = Raised("ProvisioningError")

\* C22: with MISTRAL_API_KEY unset the run never reaches the chain build: no
\* create, update or delete call is issued, no conversation is started, and
\* the process exits with status 1, after the URL was parsed when the URL is
\* a valid one.
C22_NoPlatformCallWithoutKey ==
    MISTRAL_API_KEY = None =>
      /\ pc \in {"parse_url", "api_key", "done", "exited"}
      /\ created = <<>>
      /\ buildFailedAt = 0
      /\ updateCalls = <<>>
      /\ deleteAttempts = <<>>
      /\ cur = None
      /\ agentTrace = <<>>
      /\ toolLog = <<>>
      /\ pc = "exited" =>
           /\ exit_code = 1
           /\ parse_pr_url(pr_url).kind # "error" =>
                /\ outcome = Raised("SystemExit")
                /\ parsed # <<>>

\* C22 witness: the URL was parsed, the key is unset, the process exited 1
C22_Witness ==
    /\ pc = "exited"
    /\ MISTRAL_API_KEY = None
    /\ parsed # <<>>
    /\ outcome = Raised("SystemExit")
    /\ exit_code = 1

====
